---- MODULE Spec2Model ----
(***************************************************************************)
(* Model of core/splitter.go: the three data splitters (k-fold, per-user   *)
(* leave-one-out, per-user keep-N) and the process-wide math/rand          *)
(* generator they seed and draw from.                                      *)
(*                                                                         *)
(* A splitter is a closure built once (NewKFoldSplitter(k), ...) and then  *)
(* invoked with (dataSet, seed).  An invocation runs in a goroutine of     *)
(* Procs; its steps are the accesses it makes to the shared generator      *)
(* (rand.Seed, rand.Perm, rand.Intn), each together with the local code    *)
(* that follows it.  math/rand locks its source for every single draw, so  *)
(* the interleavings of whole rand.Perm calls followed here are among the  *)
(* interleavings of the program.                                           *)
(*                                                                         *)
(* Three specifications share the steps:                                   *)
(*   Spec         one caller, invoking the splitter again and again;       *)
(*   SpecAnySeed  one invocation, with any seed of AllSeeds;               *)
(*   SpecConc     two goroutines, one invocation each, interleaved.        *)
(*                                                                         *)
(* Positions, inner ids and permutation values are 0-based as in the Go    *)
(* code; TLA+ sequences are 1-based, so element i of a Go slice s is       *)
(* s[i + 1].  Every output rating carries, besides (user, item, rating),   *)
(* the position `pos` of the input observation it was copied from; `pos`   *)
(* is bookkeeping of the model, not a field of the program.                *)
(***************************************************************************)
EXTENDS Integers, Sequences, FiniteSets, TLC

\* ----------------------------------------------------------------- state
VARIABLES
    splitter,   \* the closure under test: its kind and captured parameters
    dataSet,    \* the input store, never modified
    rng,        \* state of math/rand's process-wide generator
    pc,         \* per goroutine: where its invocation stands
    seed,       \* per goroutine: the seed of its invocation
    loc,        \* per goroutine: the locals of its invocation
    result,     \* per goroutine: what its invocation returned (at pc = "done")
    memo        \* per seed: what the first invocation with that seed returned

vars == <<splitter, dataSet, rng, pc, seed, loc, result, memo>>

\* The goroutines that may invoke the splitter.
Procs == {1, 2}

\* ------------------------------------------------------------------ bounds
\* Longest input store.
MaxLen == 3
\* Largest repeat count of the leave-one-out and keep-N splitters.
MaxRepeat == 2
\* Largest n of the keep-N splitter.
MaxN == 2
\* Longest input store when two goroutines run concurrently.
MaxLenConc == 2

\* Outer user and item identifiers of the input observations.
OuterUsers == {0, 1}
OuterItems == {0, 1}
\* Seeds the callers pass when they invoke the splitter more than once.
Seeds == {1, 2}
\* Seeds of a single invocation; between them rand.Perm(3) yields all six
\* permutations.
AllSeeds == 0..7
\* testRatio as <<numerator, denominator>>: -1/2, 0, 1/2, 1, 3/2.  All are
\* exact in float64, and so are their products with a user count.
Ratios == {<<-1, 2>>, <<0, 1>>, <<1, 2>>, <<1, 1>>, <<3, 2>>}

\* ------------------------------------------------------ rating store (input)
\* The value a user gave an item.
RatingOf(u, i) == 1 + ((u + 2 * i) % 3)

Observation(u, i) == [user |-> u, item |-> i, rating |-> RatingOf(u, i)]

Observations == {Observation(u, i) : u \in OuterUsers, i \in OuterItems}

Stores == UNION {[1..l -> Observations] : l \in 0..MaxLen}

\* DataSet.SubSet(indices): the ratings at those positions, in the given order.
SubSet(set, indices) ==
    [j \in 1..Len(indices) |->
        [user |-> set[indices[j] + 1].user, item |-> set[indices[j] + 1].item,
         rating |-> set[indices[j] + 1].rating, pos |-> indices[j]]]

\* concatenate(a, b) of two index slices.
concatenate(a, b) == a \o b

\* ------------------------------------------------------ dense index (TrainSet)
RECURSIVE FirstSeen(_)
\* The distinct values of s in order of first appearance.
FirstSeen(s) ==
    IF s = <<>> THEN <<>>
    ELSE LET f == FirstSeen(SubSeq(s, 1, Len(s) - 1))
             x == s[Len(s)]
         IN  IF \E j \in 1..Len(f) : f[j] = x THEN f ELSE Append(f, x)

\* Inner id (0-based) of an outer id.
InnerId(outerIds, x) == (CHOOSE j \in 1..Len(outerIds) : outerIds[j] = x) - 1

\* NewTrainSet(set): outer ids by inner id, and the ratings grouped by inner
\* user id as (inner item id, rating) in store order.
NewTrainSet(set) ==
    LET outerUserIds == FirstSeen([p \in 1..Len(set) |-> set[p].user])
        outerItemIds == FirstSeen([p \in 1..Len(set) |-> set[p].item])
        all == [p \in 1..Len(set) |->
                   [Id |-> InnerId(outerItemIds, set[p].item),
                    Rating |-> set[p].rating,
                    user |-> InnerId(outerUserIds, set[p].user),
                    pos |-> p - 1]]
        OfUser(u) == LET Mine(ir) == ir.user = u IN SelectSeq(all, Mine)
    IN  [UserCount |-> Len(outerUserIds),
         ItemCount |-> Len(outerItemIds),
         length |-> Len(set),
         outerUserIds |-> outerUserIds,
         outerItemIds |-> outerItemIds,
         userRatings |-> [u \in 1..Len(outerUserIds) |-> OfUser(u - 1)]]

\* ------------------------------------------------- math/rand, process-wide
\* The generator is deterministic: its output is a function of the seed and of
\* the number of draws made since.  It is modelled by a full-period linear
\* congruential generator on 16 states.  Until the first rand.Seed the
\* generator behaves as if seeded by rand.Seed(1): it starts in state 1.

\* A call that forgets rand.Seed: the generator keeps the state it is in.
RngSeedSkipped(sd) == rng

\* rand.Seed(seed)
RngSeed(sd) == sd % 16

\* One step of the source.
RngNext(s) == (5 * s + 3) % 16

\* rand.Intn(n) of the state reached by one step.
RngInt(s, n) == (s \div 2) % n

RECURSIVE PermFrom(_, _, _, _)
\* rand.Perm's loop: for i < n { j := Intn(i+1); m[i] = m[j]; m[j] = i }
PermFrom(m, i, n, s) ==
    IF i >= n THEN [perm |-> m, rng |-> s]
    ELSE LET s1 == RngNext(s)
             j  == RngInt(s1, i + 1)
             m1 == [m EXCEPT ![i + 1] = m[j + 1]]
             m2 == [m1 EXCEPT ![j + 1] = i]
         IN  PermFrom(m2, i + 1, n, s1)

\* rand.Perm(n) from generator state s: the permutation and the state left.
RandPerm(n, s) == PermFrom([x \in 1..n |-> 0], 0, n, s)

\* ------------------------------------------------------------- splitters
\* The closures NewKFoldSplitter(k), NewUserLOOSplitter(repeat) and
\* NewUserKeepNSplitter(repeat, n, testRatio) can return.  A field a kind does
\* not have is 0.
KFoldSplitters ==
    {[kind |-> "kfold", k |-> k, repeat |-> 0, n |-> 0, testRatio |-> <<0, 1>>] :
        k \in (-1)..(MaxLen + 1)}

LOOSplitters ==
    {[kind |-> "loo", k |-> 0, repeat |-> r, n |-> 0, testRatio |-> <<0, 1>>] :
        r \in 1..MaxRepeat}

KeepNSplitters ==
    {[kind |-> "keepn", k |-> 0, repeat |-> r, n |-> n, testRatio |-> q] :
        r \in 1..MaxRepeat, n \in (-1)..MaxN, q \in Ratios}

Splitters == KFoldSplitters \cup LOOSplitters \cup KeepNSplitters

\* What a call hands back: the two fold sequences, or a run-time panic.
\* userTests records, per repeat of the keep-N splitter, the userTest slice
\* that repeat drew; it is bookkeeping of the model, not part of the value
\* returned.
NoResult == [status |-> "none", trainFolds |-> <<>>, testFolds |-> <<>>,
             userTests |-> <<>>]
Panic == [status |-> "panic", trainFolds |-> <<>>, testFolds |-> <<>>,
          userTests |-> <<>>]
Returned(tf, sf, ut) ==
    [status |-> "ok", trainFolds |-> tf, testFolds |-> sf, userTests |-> ut]

\* ------------------------------------------------------------------ k-fold
\* A fold loop without the `if i < dataSet.Length()%k { end++ }`.
FoldEndNoRemainder(L, k, i) == (i + 1) * (L \div k)

RECURSIVE FoldEnd(_, _, _)
\* `end` after iteration i of the fold loop (0 before the first).
FoldEnd(L, k, i) ==
    IF i < 0 THEN 0
    ELSE FoldEnd(L, k, i - 1) + (L \div k) + (IF i < L % k THEN 1 ELSE 0)

\* `begin` of iteration i: the `end` the previous iteration left.
FoldBegin(L, k, i) == FoldEnd(L, k, i - 1)

\* testIndex := perm[begin:end]
testIndex(perm, L, k, i) == SubSeq(perm, FoldBegin(L, k, i) + 1, FoldEnd(L, k, i))

\* A train slice that restarts at begin instead of end.
trainIndexFromBegin(perm, L, k, i) ==
    concatenate(SubSeq(perm, 1, FoldBegin(L, k, i)),
                SubSeq(perm, FoldBegin(L, k, i) + 1, L))

\* trainIndex := concatenate(perm[0:begin], perm[end:dataSet.Length()])
trainIndex(perm, L, k, i) ==
    concatenate(SubSeq(perm, 1, FoldBegin(L, k, i)),
                SubSeq(perm, FoldEnd(L, k, i) + 1, L))

\* The fold loop of the k-fold splitter over a drawn permutation (k > 0).
KFoldFolds(set, k, perm) ==
    Returned([i \in 1..k |-> SubSet(set, trainIndex(perm, Len(set), k, i - 1))],
             [i \in 1..k |-> SubSet(set, testIndex(perm, Len(set), k, i - 1))],
             <<>>)

\* ----------------------------------------------------------- leave-one-out
\* The rating of inner user u at index `index` of that user's list, as the
\* leave-one-out splitter appends it: with the outer ids.
LOORating(ts, u, index) ==
    LET ir == ts.userRatings[u + 1][index + 1]
    IN  [user |-> ts.outerUserIds[u + 1], item |-> ts.outerItemIds[ir.Id + 1],
         rating |-> ir.Rating, pos |-> ir.pos]

\* A comparison index <= out in place of index == out.
LOOIsTestUpTo(index, out) == index <= out

\* if index == out: the rating goes to test, else to train.
LOOIsTest(index, out) == index = out

RECURSIVE LOOPick(_, _, _, _, _)
\* The ratings of user u at the indices from `index` on that go to test
\* (test = TRUE) or to train (test = FALSE), in list order.
LOOPick(ts, u, out, index, test) ==
    IF index >= Len(ts.userRatings[u + 1]) THEN <<>>
    ELSE (IF LOOIsTest(index, out) = test THEN <<LOORating(ts, u, index)>> ELSE <<>>)
         \o LOOPick(ts, u, out, index + 1, test)

\* ------------------------------------------------------------------ keep-N
\* int(x) of the float64 x = a / b (b > 0): truncation toward zero.
Trunc(a, b) == IF a >= 0 THEN a \div b ELSE -((-a) \div b)

\* testSize := int(float64(trainSet.UserCount) * testRatio)
testSize(ts, testRatio) == Trunc(ts.UserCount * testRatio[1], testRatio[2])

\* The rating of inner user userId at `index`, as the keep-N splitter appends
\* it: trainUsers gets userId and trainItems gets ir.Id.
KeepNRating(ts, userId, index) ==
    LET ir == ts.userRatings[userId + 1][index + 1]
    IN  [user |-> userId, item |-> ir.Id, rating |-> ir.Rating, pos |-> ir.pos]

\* A train-user loop that stops after its first user.
KeepNTrainUsersFirstOnly(ts, userTrain) ==
    IF userTrain = <<>> THEN <<>>
    ELSE [j \in 1..Len(ts.userRatings[userTrain[1] + 1]) |->
             KeepNRating(ts, userTrain[1], j - 1)]

RECURSIVE KeepNTrainUsers(_, _)
\* All ratings of the users of userTrain, user by user.
KeepNTrainUsers(ts, userTrain) ==
    IF userTrain = <<>> THEN <<>>
    ELSE [j \in 1..Len(ts.userRatings[userTrain[1] + 1]) |->
             KeepNRating(ts, userTrain[1], j - 1)]
         \o KeepNTrainUsers(ts, Tail(userTrain))

\* A comparison i <= n in place of i < n.
KeepNKeptOneMore(i, n) == i <= n

\* Whether the rating at place i of ratingPerm is kept for training.
KeepNKept(i, n) == i < n

RECURSIVE KeepNPick(_, _, _, _, _, _)
\* The ratings of a test user at the places from i on of ratingPerm that are
\* (kept = TRUE) or are not (kept = FALSE) kept for training.
KeepNPick(ts, userId, ratingPerm, n, i, kept) ==
    IF i >= Len(ratingPerm) THEN <<>>
    ELSE (IF KeepNKept(i, n) = kept
          THEN <<KeepNRating(ts, userId, ratingPerm[i + 1])>> ELSE <<>>)
         \o KeepNPick(ts, userId, ratingPerm, n, i + 1, kept)

\* ---------------------------------------------------------- initial state
\* Locals of an invocation before rand.Seed: i is the repeat index, u the index
\* in the user loop, train/test the trainUsers.. and testUsers.. slices
\* (zipped), trainFolds/testFolds the folds stored so far, trainSet the dense
\* index of the input (not built yet).
LocInit ==
    [i |-> 0, u |-> 0, userTest |-> <<>>, train |-> <<>>, test |-> <<>>,
     trainFolds |-> <<>>, testFolds |-> <<>>, userTests |-> <<>>,
     trainSet |-> NewTrainSet(<<>>)]

\* trainSet := NewTrainSet(dataSet)
WithTrainSet(l) == [l EXCEPT !.trainSet = NewTrainSet(dataSet)]

\* The splitter has been built and no invocation has started.
Init ==
    /\ splitter \in Splitters
    /\ dataSet \in Stores
    /\ rng = 1
    /\ pc = [p \in Procs |-> "idle"]
    /\ seed = [p \in Procs |-> 1]
    /\ loc = [p \in Procs |-> LocInit]
    /\ result = [p \in Procs |-> NoResult]
    /\ memo = [s \in Seeds |-> NoResult]

\* ------------------------------------------------- the steps of an invocation
\* A step maps the invocation's locals and the generator state g it finds to
\* the invocation's next position, locals, result and the generator state left.
Stepped(npc, l, res, g) == [pc |-> npc, loc |-> l, result |-> res, rng |-> g]

\* Entry of the closure: make([]TrainSet, k) and make([]DataSet, k) panic on a
\* negative length.
Enter(g) ==
    IF splitter.kind = "kfold" /\ splitter.k < 0
    THEN Stepped("done", LocInit, Panic, g)
    ELSE Stepped("seed", LocInit, NoResult, g)

\* End of a repeat of the leave-one-out or keep-N splitter: store the fold,
\* then either start the next repeat at `again` or return.
EndRepeat(l, train, test, again, g) ==
    LET tf == Append(l.trainFolds, train)
        sf == Append(l.testFolds, test)
        ut == Append(l.userTests, l.userTest)
    IN  IF l.i + 1 < splitter.repeat
        THEN Stepped(again, [LocInit EXCEPT !.i = l.i + 1, !.trainFolds = tf,
                                           !.testFolds = sf, !.userTests = ut,
                                           !.trainSet = l.trainSet],
                     NoResult, g)
        ELSE Stepped("done", LocInit, Returned(tf, sf, ut), g)

\* rand.Seed(seed), and the local code up to the next use of the generator.
\* On an empty store the leave-one-out loops draw nothing and the call returns
\* `repeat` empty folds.
SeedStep(sd) ==
    IF splitter.kind = "kfold" THEN Stepped("perm", LocInit, NoResult, RngSeed(sd))
    ELSE IF splitter.kind = "keepn"
    THEN Stepped("userperm", WithTrainSet(LocInit), NoResult, RngSeed(sd))
    ELSE IF NewTrainSet(dataSet).UserCount > 0
    THEN Stepped("loo", WithTrainSet(LocInit), NoResult, RngSeed(sd))
    ELSE Stepped("done", LocInit,
                 Returned([i \in 1..splitter.repeat |-> <<>>],
                          [i \in 1..splitter.repeat |-> <<>>],
                          [i \in 1..splitter.repeat |-> <<>>]), RngSeed(sd))

\* perm := rand.Perm(dataSet.Length()), then the fold loop; dataSet.Length() / k
\* panics when k = 0.
KFoldPermStep(g) ==
    LET r == RandPerm(Len(dataSet), g)
    IN  Stepped("done", LocInit,
                IF splitter.k = 0 THEN Panic
                ELSE KFoldFolds(dataSet, splitter.k, r.perm), r.rng)

\* out := rand.Intn(len(irs)) for the next user, and that user's inner loop.
LOODrawStep(l, g) ==
    LET ts  == l.trainSet
        s1  == RngNext(g)
        out == RngInt(s1, Len(ts.userRatings[l.u + 1]))
        train == l.train \o LOOPick(ts, l.u, out, 0, FALSE)
        test  == l.test \o LOOPick(ts, l.u, out, 0, TRUE)
    IN  IF l.u + 1 < ts.UserCount
        THEN Stepped("loo", [l EXCEPT !.u = l.u + 1, !.train = train,
                                      !.test = test], NoResult, s1)
        ELSE EndRepeat(l, train, test, "loo", s1)

\* userPerm := rand.Perm(trainSet.UserCount); userPerm[:testSize] panics when
\* testSize is negative or exceeds the slice's capacity; then the loop over
\* the train users.
KeepNUserPermStep(l, g) ==
    LET ts == l.trainSet
        r  == RandPerm(ts.UserCount, g)
        sz == testSize(ts, splitter.testRatio)
        userTest  == SubSeq(r.perm, 1, sz)
        userTrain == SubSeq(r.perm, sz + 1, ts.UserCount)
        train == KeepNTrainUsers(ts, userTrain)
    IN  IF sz < 0 \/ sz > ts.UserCount
        THEN Stepped("done", LocInit, Panic, r.rng)
        ELSE IF sz = 0
        THEN EndRepeat(l, train, <<>>, "userperm", r.rng)
        ELSE Stepped("ratingperm", [l EXCEPT !.userTest = userTest,
                                             !.train = train], NoResult, r.rng)

\* ratingPerm := rand.Perm(len(userRatings[userId])) for the next test user,
\* and the loop that sends the first n shuffled ratings to train.
KeepNRatingPermStep(l, g) ==
    LET ts == l.trainSet
        userId == l.userTest[l.u + 1]
        r  == RandPerm(Len(ts.userRatings[userId + 1]), g)
        train == l.train \o KeepNPick(ts, userId, r.perm, splitter.n, 0, TRUE)
        test  == l.test \o KeepNPick(ts, userId, r.perm, splitter.n, 0, FALSE)
    IN  IF l.u + 1 < Len(l.userTest)
        THEN Stepped("ratingperm", [l EXCEPT !.u = l.u + 1, !.train = train,
                                             !.test = test], NoResult, r.rng)
        ELSE EndRepeat(l, train, test, "userperm", r.rng)

\* -------------------------------------------------------------- operations
\* Goroutine p takes the step n.
Take(p, n) ==
    /\ pc' = [pc EXCEPT ![p] = n.pc]
    /\ loc' = [loc EXCEPT ![p] = n.loc]
    /\ result' = [result EXCEPT ![p] = n.result]
    /\ rng' = n.rng
    /\ UNCHANGED <<splitter, dataSet>>

\* The caller invokes splitter(dataSet, s).
Call(p, s) ==
    /\ pc[p] = "idle"
    /\ seed' = [seed EXCEPT ![p] = s]
    /\ Take(p, Enter(rng))
    /\ UNCHANGED memo

Seed(p) ==
    /\ pc[p] = "seed"
    /\ Take(p, SeedStep(seed[p]))
    /\ UNCHANGED <<seed, memo>>

KFoldPerm(p) ==
    /\ pc[p] = "perm"
    /\ Take(p, KFoldPermStep(rng))
    /\ UNCHANGED <<seed, memo>>

LOODraw(p) ==
    /\ pc[p] = "loo"
    /\ Take(p, LOODrawStep(loc[p], rng))
    /\ UNCHANGED <<seed, memo>>

KeepNUserPerm(p) ==
    /\ pc[p] = "userperm"
    /\ Take(p, KeepNUserPermStep(loc[p], rng))
    /\ UNCHANGED <<seed, memo>>

KeepNRatingPerm(p) ==
    /\ pc[p] = "ratingperm"
    /\ Take(p, KeepNRatingPermStep(loc[p], rng))
    /\ UNCHANGED <<seed, memo>>

\* The caller takes the result; the first result of each seed is remembered.
Return(p) ==
    /\ pc[p] = "done"
    /\ pc' = [pc EXCEPT ![p] = "idle"]
    /\ result' = [result EXCEPT ![p] = NoResult]
    /\ memo' = IF memo[seed[p]] = NoResult
               THEN [memo EXCEPT ![seed[p]] = result[p]]
               ELSE memo
    /\ UNCHANGED <<splitter, dataSet, rng, seed, loc>>

\* One caller invoking the splitter again and again, each invocation returning
\* before the next starts.
Next ==
    \/ \E s \in Seeds : Call(1, s)
    \/ Seed(1)
    \/ KFoldPerm(1)
    \/ LOODraw(1)
    \/ KeepNUserPerm(1)
    \/ KeepNRatingPerm(1)
    \/ Return(1)

Spec == Init /\ [][Next]_vars

\* One invocation, with any seed.
NextAnySeed ==
    \/ \E s \in AllSeeds : Call(1, s)
    \/ Seed(1)
    \/ KFoldPerm(1)
    \/ LOODraw(1)
    \/ KeepNUserPerm(1)
    \/ KeepNRatingPerm(1)

SpecAnySeed == Init /\ [][NextAnySeed]_vars

\* Goroutine p starts its one invocation, with a seed no other goroutine uses.
Go(p, s) ==
    /\ \A q \in Procs \ {p} : pc[q] = "idle" \/ seed[q] # s
    /\ Call(p, s)

\* Two goroutines, each invoking the splitter once, their steps interleaved.
NextConc ==
    \/ \E p \in Procs, s \in Seeds : Go(p, s)
    \/ \E p \in Procs : Seed(p)
    \/ \E p \in Procs : KFoldPerm(p)
    \/ \E p \in Procs : LOODraw(p)
    \/ \E p \in Procs : KeepNUserPerm(p)
    \/ \E p \in Procs : KeepNRatingPerm(p)

InitConc == Init /\ Len(dataSet) <= MaxLenConc

SpecConc == InitConc /\ [][NextConc]_vars

\* ------------------------------------------------------ reading a result
\* An invocation run alone: its steps taken one after the other from the
\* generator's initial state, no other invocation touching the generator.
StepOf(st, sd) ==
    CASE st.pc = "seed" -> SeedStep(sd)
      [] st.pc = "perm" -> KFoldPermStep(st.rng)
      [] st.pc = "loo" -> LOODrawStep(st.loc, st.rng)
      [] st.pc = "userperm" -> KeepNUserPermStep(st.loc, st.rng)
      [] st.pc = "ratingperm" -> KeepNRatingPermStep(st.loc, st.rng)

RECURSIVE Run(_, _)
Run(st, sd) == IF st.pc = "done" THEN st.result ELSE Run(StepOf(st, sd), sd)

RunAlone(sd) == Run(Enter(1), sd)

Done(p) == pc[p] = "done"

Positions == 0..(Len(dataSet) - 1)

\* The store positions of the ratings of a fold.
PosSet(fold) == {fold[j].pos : j \in 1..Len(fold)}

\* How many ratings of a fold come from the positions in S.
CountIn(fold, S) == Cardinality({j \in 1..Len(fold) : fold[j].pos \in S})

\* The positions of the ratings of outer user x / of inner user u.
OuterUserPos(x) == {q \in Positions : dataSet[q + 1].user = x}
InnerUserPos(u) == OuterUserPos(NewTrainSet(dataSet).outerUserIds[u + 1])

\* Which positions a result puts in train and in test, fold by fold, whatever
\* their order inside a fold.
Assignment(res) ==
    [status |-> res.status,
     train |-> [i \in 1..Len(res.trainFolds) |-> PosSet(res.trainFolds[i])],
     test |-> [i \in 1..Len(res.testFolds) |-> PosSet(res.testFolds[i])]]

Min(a, b) == IF a < b THEN a ELSE b
Max(a, b) == IF a > b THEN a ELSE b

Range(s) == {s[j] : j \in 1..Len(s)}

KFoldValid ==
    splitter.kind = "kfold" /\ 1 <= splitter.k /\ splitter.k <= Len(dataSet)

RatioValid == 0 <= splitter.testRatio[1] /\ splitter.testRatio[1] < splitter.testRatio[2]

KeepNValid == splitter.kind = "keepn" /\ splitter.n >= 0 /\ RatioValid

\* ------------------------------------------------------------------ claims
\* C1: for a k-fold call with 1 <= k <= L, the k test folds together hold
\* every store position in [0, L) exactly once.
KFoldPartition ==
    \A p \in Procs :
        Done(p) /\ KFoldValid =>
            /\ result[p].status = "ok"
            /\ Len(result[p].testFolds) = splitter.k
            /\ \A x \in Positions :
                   Cardinality({ij \in {<<i, j>> : i \in 1..splitter.k, j \in 1..MaxLen + 1} :
                       /\ ij[2] <= Len(result[p].testFolds[ij[1]])
                       /\ result[p].testFolds[ij[1]][ij[2]].pos = x}) = 1
            /\ \A i \in 1..splitter.k : PosSet(result[p].testFolds[i]) \subseteq Positions

\* A k-fold call with 1 < k < L (uneven folds) has returned.
KFoldPartitionWitness ==
    /\ Done(1) /\ KFoldValid /\ splitter.k = 2 /\ Len(dataSet) = 3
    /\ Len(result[1].testFolds[1]) = 2 /\ Len(result[1].testFolds[2]) = 1

\* C2 (as claimed): an invocation overlapped by another one with a different
\* seed returns what it returns when run alone with its own seed: the same
\* outcome, and in every fold the same positions in train and in test.
Isolation ==
    \A p \in Procs : Done(p) => Assignment(result[p]) = Assignment(RunAlone(seed[p]))

\* C3: a call returns what the first call with the same seed returned,
\* whatever calls with other seeds were made before it or in between.
Determinism ==
    \A p \in Procs :
        Done(p) /\ memo[seed[p]] # NoResult => result[p] = memo[seed[p]]

\* A second call with a seed has returned folds, after a call with another
\* seed had returned in between, and the store is long enough for the draws
\* to matter.
DeterminismWitness ==
    /\ Done(1) /\ result[1].status = "ok" /\ Len(dataSet) = 3
    /\ memo[1] # NoResult /\ memo[2] # NoResult /\ memo[1] # memo[2]

\* C4 (as claimed): a k-fold call with k <= 0 or k > L returns no folds.
KFoldInvalidRejected ==
    \A p \in Procs :
        Done(p) /\ splitter.kind = "kfold"
                /\ (splitter.k <= 0 \/ splitter.k > Len(dataSet))
            => result[p].status # "ok"

\* C5 (as claimed): a keep-N call with testRatio outside [0,1) or with a
\* negative n returns no folds.
KeepNInvalidRejected ==
    \A p \in Procs :
        Done(p) /\ splitter.kind = "keepn" /\ (~RatioValid \/ splitter.n < 0)
            => result[p].status # "ok"

\* C6: in every repeat of a leave-one-out call on a non-empty store, every
\* user has exactly one rating in test and all the others in train; the test
\* store has userCount ratings.
LOOCoverage ==
    \A p \in Procs :
        Done(p) /\ splitter.kind = "loo" /\ Len(dataSet) > 0 =>
            /\ result[p].status = "ok"
            /\ Len(result[p].testFolds) = splitter.repeat
            /\ Len(result[p].trainFolds) = splitter.repeat
            /\ \A i \in 1..splitter.repeat :
                   LET train == result[p].trainFolds[i]
                       test  == result[p].testFolds[i]
                   IN  /\ Len(test) = NewTrainSet(dataSet).UserCount
                       /\ \A x \in OuterUsers :
                              OuterUserPos(x) # {} =>
                                  /\ CountIn(test, OuterUserPos(x)) = 1
                                  /\ CountIn(train, OuterUserPos(x))
                                         = Cardinality(OuterUserPos(x)) - 1
                                  /\ PosSet(train) \cap OuterUserPos(x)
                                         = OuterUserPos(x) \ PosSet(test)

\* A leave-one-out call has returned on a store with a one-rating user and a
\* two-rating user.
LOOCoverageWitness ==
    /\ Done(1) /\ splitter.kind = "loo" /\ splitter.repeat = 2
    /\ Cardinality(OuterUserPos(0)) = 1 /\ Cardinality(OuterUserPos(1)) = 2
    /\ Len(result[1].trainFolds[2]) = 1

\* C7: in every repeat of a keep-N call with n >= 0, a test user has
\* min(n, count) ratings in train and max(0, count - n) in test, and any other
\* user has all ratings in train and none in test.
KeepNBound ==
    \A p \in Procs :
        Done(p) /\ splitter.kind = "keepn" /\ splitter.n >= 0
                /\ result[p].status = "ok" =>
            /\ Len(result[p].testFolds) = splitter.repeat
            /\ \A i \in 1..splitter.repeat :
                 \A u \in 0..(NewTrainSet(dataSet).UserCount - 1) :
                   LET count == Cardinality(InnerUserPos(u))
                       inTrain == CountIn(result[p].trainFolds[i], InnerUserPos(u))
                       inTest  == CountIn(result[p].testFolds[i], InnerUserPos(u))
                   IN  IF u \in Range(result[p].userTests[i])
                       THEN /\ inTrain = Min(splitter.n, count)
                            /\ inTest = Max(0, count - splitter.n)
                       ELSE inTrain = count /\ inTest = 0

\* One user with 3 ratings, n = 1, testRatio = 1: one rating in train, two in
\* test.
KeepNBoundWitness ==
    /\ Done(1) /\ splitter.kind = "keepn" /\ splitter.n = 1
    /\ splitter.testRatio = <<1, 1>> /\ result[1].status = "ok"
    /\ Cardinality(OuterUserPos(1)) = 3
    /\ Len(result[1].trainFolds[1]) = 1 /\ Len(result[1].testFolds[1]) = 2

\* C8: in every fold or repeat any splitter returns, no store position is in
\* both the train output and the test output.
Disjointness ==
    \A p \in Procs :
        Done(p) /\ result[p].status = "ok" =>
            \A i \in 1..Len(result[p].trainFolds) :
                PosSet(result[p].trainFolds[i]) \cap PosSet(result[p].testFolds[i]) = {}

\* A call has returned a fold with ratings on both sides.
DisjointnessWitness ==
    /\ Done(1) /\ result[1].status = "ok" /\ splitter.kind = "kfold"
    /\ Len(result[1].trainFolds[1]) = 2 /\ Len(result[1].testFolds[1]) = 1

\* C9 (as claimed): every rating a keep-N call returns carries the outer user
\* id, outer item id and value of an observation of the input store.
KeepNPreservesIds ==
    \A p \in Procs :
        Done(p) /\ splitter.kind = "keepn" /\ result[p].status = "ok" =>
            \A i \in 1..Len(result[p].trainFolds) :
                \A e \in Range(result[p].trainFolds[i]) \cup Range(result[p].testFolds[i]) :
                    \E q \in 1..Len(dataSet) :
                        dataSet[q] = [user |-> e.user, item |-> e.item,
                                      rating |-> e.rating]

\* C10: on valid parameters every splitter returns folds, and in each of them
\* every store position is in exactly one of train and test.
Conservation ==
    \A p \in Procs :
        Done(p) /\ (KFoldValid \/ splitter.kind = "loo" \/ KeepNValid) =>
            /\ result[p].status = "ok"
            /\ Len(result[p].trainFolds) = Len(result[p].testFolds)
            /\ \A i \in 1..Len(result[p].trainFolds) :
                   LET train == result[p].trainFolds[i]
                       test  == result[p].testFolds[i]
                   IN  /\ PosSet(train) \cup PosSet(test) = Positions
                       /\ Len(train) + Len(test) = Len(dataSet)

\* A keep-N call on valid parameters has split a three-rating store.
ConservationWitness ==
    /\ Done(1) /\ KeepNValid /\ Len(dataSet) = 3 /\ result[1].status = "ok"
    /\ Len(result[1].trainFolds[1]) = 2 /\ Len(result[1].testFolds[1]) = 1

====
